---- MODULE Spec2Model ----
(***************************************************************************)
(* The lexer, parser and step machines of the shigure front end            *)
(* (crates/shigure-parser) as state machines.                              *)
(*                                                                         *)
(* A source text is a sequence of characters, each character a string.     *)
(* Option<T> is a sequence of length 0 (None) or 1 (Some).                 *)
(***************************************************************************)
EXTENDS Integers, Sequences, FiniteSets, TLC

VARIABLES
    input,      \* the source text handed to Tokenizer::new / Parser::new
    tokenizer,  \* Tokenizer { itr, pending, current_idx, full_idx_count, current }
    out,        \* the results returned so far by successive Tokenizer::next() calls
    parser,     \* Parser { previous, current } and the position of parse_all()
    issued,     \* the messages handed to Logger::issue, in order
    requests,   \* the number of Tokenizer::next() calls made by the parser
    mp,         \* ModuleParser { state, pending } and the outcome of its parse_all()
    vp,         \* ViewParser { state, pending } and the outcome of its parse_all()
    logger      \* Logger { path, input, index, len }

vars == <<input, tokenizer, out, parser, issued, requests, mp, vp, logger>>

----------------------------------------------------------------------------
(* Bounds of the model *)

\* Longest source text drawn from LexAlphabet.
MaxLen == 4

\* Most chunks of ParseVocabulary in a generated source text.
MaxChunks == 3

----------------------------------------------------------------------------
(* Characters *)

\* Option<char>::None
None == "None"

Lower ==
    {"a","b","c","d","e","f","g","h","i","j","k","l","m",
     "n","o","p","q","r","s","t","u","v","w","x","y","z"}

Upper ==
    {"A","B","C","D","E","F","G","H","I","J","K","L","M",
     "N","O","P","Q","R","S","T","U","V","W","X","Y","Z"}

Digits == {"0","1","2","3","4","5","6","7","8","9"}

\* the pattern 'a'..='z' | 'A'..='Z'
IsAsciiLetter(c) == c \in Lower \cup Upper

\* char::is_alphabetic: the ASCII letters and the alphabetic characters beyond
\* ASCII, of which U+00E9 stands for all.
IsAlphabetic(c) == c \in Lower \cup Upper \cup {"U+00E9"}

\* char::is_digit(10)
IsDigit(c) == c \in Digits

\* char::is_whitespace
IsWhitespace(c) == c \in {" ", "\t", "\n", "\r"}

\* the pattern 'a'..='z' | 'A'..='Z' | '0'..='9' | '_' | '$' | '-'
IsIdentifierChar(c) == c \in Lower \cup Upper \cup Digits \cup {"_", "$", "-"}

----------------------------------------------------------------------------
(* Tokens *)

TokenLoc(starts_at, len) == [starts_at |-> starts_at, len |-> len]

\* TokenContent: kind is the variant, text the String it carries (<<>> if none).
Content(kind, text) == [kind |-> kind, text |-> text]

Token(loc, con) == [loc |-> loc, con |-> con]

\* TokenResult: Ok(token) or Err(kind).  The error kinds of tokenizer.rs carry
\* no data; `at` records the offset at which the failing lexeme began, which is
\* what the parser reads through err.loc().
NoToken == Token(TokenLoc(0, 0), Content("-", <<>>))

Ok(tok) == [ok |-> TRUE, tok |-> tok, err |-> "-", at |-> 0]

Err(kind, at) == [ok |-> FALSE, tok |-> NoToken, err |-> kind, at |-> at]

\* The location a TokenizerErr value carries.  The variants of the enum of
\* tokenizer.rs have no fields, so a value of it carries none.
TokenizerErrLoc(res) == <<>>

\* impl TryFrom<&str> for TokenContent: the variant a word spells, "-" for Err(()).
ReservedTable ==
    { <<<<"<","/">>, "TagAngleClosingLeft">>,
      <<<<"/",">">>, "TagAngleSelfClosingRight">>,
      <<<<"a","s">>, "As">>,
      <<<<"c","o","n","s","t">>, "Const">>,
      <<<<"e","f","f","e","c","t">>, "Effect">>,
      <<<<"e","l","s","e">>, "Else">>,
      <<<<"e","m","i","t","s">>, "Emits">>,
      <<<<"f","n">>, "FnKeyword">>,
      <<<<"f","o","r">>, "For">>,
      <<<<"f","r","o","m">>, "FromKeyword">>,
      <<<<"i","f">>, "If">>,
      <<<<"i","m","p","o","r","t">>, "Import">>,
      <<<<"l","e","t">>, "Let">>,
      <<<<"n","i","l">>, "Nil">>,
      <<<<"t","y","p","e">>, "Type">>,
      <<<<"u","s","e">>, "Use">>,
      <<<<"v","i","e","w">>, "View">>,
      <<<<"w","h","e","n">>, "When">>,
      <<<<"w","i","t","h">>, "With">>,
      <<<<"p","u","b">>, "Pub">> }

TryFromStr(word) ==
    IF \E e \in ReservedTable : e[1] = word
    THEN (CHOOSE e \in ReservedTable : e[1] = word)[2]
    ELSE "-"

----------------------------------------------------------------------------
(* Tokenizer *)

\* const MAX_IDX_VALUE: u32 = u32::MAX.  TLC's integers end at 2^31 - 1, which
\* stands for u32::MAX here: both lie beyond every source text of the model.
MAX_IDX_VALUE == 2147483647

\* Tokenizer::new for a non-empty input (an empty one panics, see ParserNew).
TokenizerNew(src) ==
    [ itr            |-> Tail(src),
      pending        |-> <<>>,
      current_idx    |-> 0,
      full_idx_count |-> 0,
      current        |-> Head(src) ]

\* The state left where no tokenizer was built.
NoTokenizer ==
    [ itr |-> <<>>, pending |-> <<>>, current_idx |-> 0,
      full_idx_count |-> 0, current |-> None ]

\* Tokenizer::consume_char
consume_char(t) ==
    LET idx  == t.current_idx + 1
        wrap == idx = MAX_IDX_VALUE
    IN  [ t EXCEPT
            !.current_idx    = IF wrap THEN 0 ELSE idx,
            !.full_idx_count = IF wrap THEN @ + 1 ELSE @,
            !.current        = IF t.itr = <<>> THEN None ELSE Head(t.itr),
            !.itr            = IF t.itr = <<>> THEN <<>> ELSE Tail(t.itr) ]

\* A lexing routine's return: the tokenizer it leaves and its result.
Ret(t, res) == [t |-> t, res |-> res]

\* The loop of lex_number_literal leaving after the first digit.
lex_number_loop_one_digit(t, literal, len) ==
    IF t.current # None /\ IsDigit(t.current) /\ len = 0
    THEN [t |-> consume_char(t), literal |-> Append(literal, t.current), len |-> 1]
    ELSE [t |-> t, literal |-> literal, len |-> len]

\* The loop of Tokenizer::lex_number_literal.
RECURSIVE lex_number_loop(_, _, _)
lex_number_loop(t, literal, len) ==
    IF t.current # None /\ IsDigit(t.current)
    THEN lex_number_loop(consume_char(t), Append(literal, t.current), len + 1)
    ELSE [t |-> t, literal |-> literal, len |-> len]

\* lex_number_literal without its `loc.len = len`: the token keeps len 0.
lex_number_literal_no_len(t) ==
    LET r == lex_number_loop(t, <<>>, 0)
    IN  Ret(r.t, Ok(Token(TokenLoc(t.current_idx, 0),
                          Content("NumberLiteral", r.literal))))

\* Tokenizer::lex_number_literal
lex_number_literal(t) ==
    LET r == lex_number_loop(t, <<>>, 0)
    IN  Ret(r.t, Ok(Token(TokenLoc(t.current_idx, r.len),
                          Content("NumberLiteral", r.literal))))

\* The loop of Tokenizer::lex_string_literal, after the opening quote.
RECURSIVE lex_string_loop(_, _, _)
lex_string_loop(t, literal, starts_at) ==
    IF t.current = None
    THEN Ret(t, Err("UnterminatedStringLiteral", starts_at))
    ELSE LET t2   == consume_char(t)
             lit2 == Append(literal, t.current)
         IN  IF t.current = "\""
             THEN Ret(t2, Ok(Token(TokenLoc(starts_at, t2.current_idx - starts_at),
                                   Content("StringLiteral", lit2))))
             ELSE lex_string_loop(t2, lit2, starts_at)

\* Tokenizer::lex_string_literal
lex_string_literal(t) ==
    IF t.current # "\""
    THEN Ret(t, Err("UnexpectedToken", t.current_idx))
    ELSE lex_string_loop(consume_char(t), <<"\"">>, t.current_idx)

\* The loop of Tokenizer::lex_reserved.  res is Option<TokenResult>.
RECURSIVE lex_reserved_loop(_, _, _)
lex_reserved_loop(t, word, starts_at) ==
    IF t.current # None /\ IsAlphabetic(t.current)
    THEN LET word2 == Append(word, t.current)
             t2    == consume_char(t)
         IN  IF TryFromStr(word2) # "-"
             THEN Ret(t2, <<Ok(Token(TokenLoc(starts_at,
                                              t2.current_idx - starts_at + 1),
                                     Content(TryFromStr(word2), <<>>)))>>)
             ELSE lex_reserved_loop(t2, word2, starts_at)
    ELSE Ret([t EXCEPT !.pending =
                 <<Token(TokenLoc(starts_at, 0), Content("Identifier", word))>>],
             <<>>)

\* Tokenizer::lex_reserved
lex_reserved(t) == lex_reserved_loop(t, <<>>, t.current_idx)

\* The loop of Tokenizer::lex_identifier.
RECURSIVE lex_identifier_loop(_, _, _)
lex_identifier_loop(t, word, loc) ==
    IF t.current = None \/ IsWhitespace(t.current)
    THEN Ret(t, Ok(Token(TokenLoc(loc.starts_at, t.current_idx - loc.starts_at),
                         Content("Identifier", word))))
    ELSE IF IsIdentifierChar(t.current)
         THEN lex_identifier_loop(consume_char(t), Append(word, t.current), loc)
         ELSE IF word # <<>> /\ word[Len(word)] = "-"
              THEN Ret(t, Err("UnexpectedToken", loc.starts_at))
              ELSE Ret(t, Ok(Token(TokenLoc(loc.starts_at,
                                            t.current_idx - loc.starts_at),
                                   Content("Identifier", word))))

\* lex_identifier giving the reserved word that the characters after the first
\* one spell, where they spell one.
lex_identifier_classifying_rest(t) ==
    LET r == IF t.pending # <<>>
             THEN LET pending == t.pending[1]
                      t1      == [t EXCEPT !.pending = <<>>]
                  IN  IF pending.con.kind = "Identifier"
                      THEN lex_identifier_loop(t1, pending.con.text, pending.loc)
                      ELSE Ret(t1, Err("UnexpectedToken", pending.loc.starts_at))
             ELSE lex_identifier_loop(t, <<>>, TokenLoc(t.current_idx, 0))
        w == r.res.tok.con.text
    IN  IF r.res.ok /\ Len(w) > 1 /\ TryFromStr(Tail(w)) # "-"
        THEN Ret(r.t, Ok(Token(r.res.tok.loc, Content(TryFromStr(Tail(w)), <<>>))))
        ELSE r

\* Tokenizer::lex_identifier
lex_identifier(t) ==
    IF t.pending # <<>>
    THEN LET pending == t.pending[1]
             t1      == [t EXCEPT !.pending = <<>>]
         IN  IF pending.con.kind = "Identifier"
             THEN lex_identifier_loop(t1, pending.con.text, pending.loc)
             ELSE Ret(t1, Err("UnexpectedToken", pending.loc.starts_at))
    ELSE lex_identifier_loop(t, <<>>, TokenLoc(t.current_idx, 0))

\* Tokenizer::lex_alphabetical_chars
lex_alphabetical_chars(t) ==
    LET r == lex_reserved(t)
    IN  IF r.res # <<>> THEN Ret(r.t, r.res[1]) ELSE lex_identifier(r.t)

\* The loop of Tokenizer::lex_anchor: advance(), then test the new character.
RECURSIVE lex_anchor_loop(_, _, _)
lex_anchor_loop(t, identifier, loc) ==
    LET t2 == consume_char(t)
    IN  IF t2.current # None /\ ~IsWhitespace(t2.current) /\ IsAlphabetic(t2.current)
        THEN lex_anchor_loop(t2, Append(identifier, t2.current),
                             TokenLoc(loc.starts_at, loc.len + 1))
        ELSE [t |-> t2, identifier |-> identifier, loc |-> loc]

\* Tokenizer::lex_anchor
lex_anchor(t) ==
    IF t.current = None \/ t.current # "#"
    THEN Ret(t, Err("InvalidElementIdentifier", t.current_idx))
    ELSE LET r == lex_anchor_loop(t, <<t.current>>, TokenLoc(t.current_idx, 1))
         IN  IF r.identifier = <<>>
             THEN Ret(r.t, Err("EmptyElementIdentifier", t.current_idx))
             ELSE Ret(r.t, Ok(Token(r.loc, Content("Anchor", r.identifier))))

\* TokenizationResult = Result<(), TokenizerErr>, or the panic of a failed assert!.
Done(t) == [t |-> t, status |-> "Ok", err |-> Err("-", 0)]

Fail(t, err) == [t |-> t, status |-> "Err", err |-> err]

Panic(t) == [t |-> t, status |-> "Panic", err |-> Err("-", 0)]

\* Tokenizer::set_pending: the assertion fails when a token is already pending.
set_pending(t, token) ==
    IF t.pending = <<>> THEN Done([t EXCEPT !.pending = <<token>>]) ELSE Panic(t)

\* Tokenizer::set_pending_or_err
set_pending_or_err(r) ==
    IF r.res.ok THEN set_pending(r.t, r.res.tok) ELSE Fail(r.t, r.res)

\* Tokenizer::tokenize_char
tokenize_char(t, c) ==
    CASE IsAsciiLetter(c) -> set_pending_or_err(lex_alphabetical_chars(t))
      [] c \in {"_", "$"} -> set_pending_or_err(lex_identifier(t))
      [] IsDigit(c)       -> set_pending_or_err(lex_number_literal(t))
      [] c = "<" ->
            set_pending(consume_char(t),
                        Token(TokenLoc(t.current_idx, 1),
                              Content("TagAngleBracketLeft", <<>>)))
      [] c = ">" ->
            set_pending(consume_char(t),
                        Token(TokenLoc(t.current_idx, 1),
                              Content("TagAngleBracketRight", <<>>)))
      [] c = "/" ->
            LET t2 == consume_char(t)
            IN  IF t2.current = ">"
                THEN set_pending(consume_char(t2),
                                 Token(TokenLoc(t2.current_idx - 1, 2),
                                       Content("TagAngleSelfClosingRight", <<>>)))
                ELSE Fail(t2, Err("UnexpectedToken", t.current_idx))
      [] c = "\"" -> set_pending_or_err(lex_string_literal(t))
      [] c = "#"  -> set_pending_or_err(lex_anchor(t))
      [] OTHER    -> Fail(t, Err("UnexpectedToken", t.current_idx))

\* What a next() call gives back: Option<TokenResult>, or a panic.
Returned(res) == [panic |-> FALSE, res |-> res]

Panicked == [panic |-> TRUE, res |-> <<>>]

\* next() returning the pending token without taking it out of the buffer.
next_result_keeping_pending(r) ==
    CASE r.status = "Ok" ->
            IF r.t.pending # <<>>
            THEN Ret(r.t, Returned(<<Ok(r.t.pending[1])>>))
            ELSE Ret(r.t, Panicked)
      [] r.status = "Err"   -> Ret(r.t, Returned(<<r.err>>))
      [] r.status = "Panic" -> Ret(r.t, Panicked)

\* Tokenizer::next, once tokenize_char has returned r.
next_result(r) ==
    CASE r.status = "Ok" ->
            IF r.t.pending # <<>>
            THEN Ret([r.t EXCEPT !.pending = <<>>], Returned(<<Ok(r.t.pending[1])>>))
            ELSE Ret(r.t, Panicked)
      [] r.status = "Err"   -> Ret(r.t, Returned(<<r.err>>))
      [] r.status = "Panic" -> Ret(r.t, Panicked)

\* next() stepping the cursor once more when it is called at the end of input.
RECURSIVE next_moving_at_end(_)
next_moving_at_end(t) ==
    IF t.current = None
    THEN Ret(consume_char(t), Returned(<<>>))
    ELSE IF IsWhitespace(t.current)
         THEN next_moving_at_end(consume_char(t))
         ELSE next_result(tokenize_char(t, t.current))

\* Tokenizer::next
RECURSIVE next(_)
next(t) ==
    IF t.current = None
    THEN Ret(t, Returned(<<>>))
    ELSE IF IsWhitespace(t.current)
         THEN next(consume_char(t))
         ELSE next_result(tokenize_char(t, t.current))

----------------------------------------------------------------------------
(* Source texts *)

\* Every sequence over S of length 0..n.
SeqsUpTo(S, n) == UNION {[1..k -> S] : k \in 0..n}

RECURSIVE Flatten(_)
Flatten(chunks) ==
    IF chunks = <<>> THEN <<>> ELSE Head(chunks) \o Flatten(Tail(chunks))

\* The characters of the generated lexer inputs: letters that spell the
\* reserved word `as` and one that spells none, a digit, whitespace, the
\* identifier characters `_` and `-`, and characters that start other lexemes.
LexAlphabet == {"a", "s", "x", "1", " ", "_", "-", "=", "\"", "#"}

\* Source texts of the tokenizer's tests and of the specification's examples.
LexSamples ==
    { <<"f","o","r","t">>,
      <<"l","e","t","t","u","c","e">>,
      <<"i","d","e","n","t","i","f","i","e","r">>,
      <<"x"," ","9","1">>,
      <<"9","1">>,
      <<"x","1"," ","\n","y","_","2","\t","7">>,
      <<"\"","U+00E9","\"">>,
      <<"\"","U+00E9","\""," ","x">>,
      <<"<","E","l","#","a","n"," ","/",">">>,
      <<"<","x","#","a","s"," ","/",">">>,
      <<"<","f","o","r","t","#","a"," ","/",">">>,
      <<"<","/","x",">">>,
      <<"a","s","<">>,
      <<"$","I","d","e","n","t","i","f","i","_","e","r">>,
      <<"_","l","e","t">>,
      <<"$","f","o","r">>,
      <<"x"," ","$","a","s","-","1"," ","_","_">>,
      <<"{">>, <<"}">>, <<"(">>, <<")">>, <<"[">>, <<"]">>,
      <<"+">>, <<"&">> }

LexInputs == (SeqsUpTo(LexAlphabet, MaxLen) \ {<<>>}) \cup LexSamples

----------------------------------------------------------------------------
(* The tokenizer driven by a caller that keeps calling next() *)

NoParser ==
    [ pc |-> "-", previous |-> <<>>, current |-> <<>>, start |-> 0,
      nodes |-> <<>>, result |-> <<>> ]

NoModuleParser ==
    [state |-> "-", token |-> <<>>, error |-> "-", pending |-> <<>>, outcome |-> "-"]

NoViewParser ==
    [state |-> "-", token |-> <<>>, error |-> "-", pending |-> <<>>, outcome |-> "-"]

NoLogger == [path |-> "-", input |-> <<>>, index |-> <<>>, len |-> 0]

InitLex ==
    /\ input \in LexInputs
    /\ tokenizer = TokenizerNew(input)
    /\ out = <<>>
    /\ parser = NoParser
    /\ issued = <<>>
    /\ requests = 0
    /\ mp = NoModuleParser
    /\ vp = NoViewParser
    /\ logger = NoLogger

\* One call of Tokenizer::next() by a caller that goes on whatever it returns,
\* for at most one call more than the input has characters.
NextCall ==
    /\ Len(out) <= Len(input)
    /\ IF out = <<>> THEN TRUE ELSE ~out[Len(out)].panic
    /\ LET r == next(tokenizer)
       IN  /\ tokenizer' = r.t
           /\ out' = Append(out, r.res)
    /\ UNCHANGED <<input, parser, issued, requests, mp, vp, logger>>

NextLex == NextCall

SpecLex == InitLex /\ [][NextLex]_vars

----------------------------------------------------------------------------
(* Logger (shigure-log): the line table and the printed report *)

\* Most messages issued to one logger.
MaxIssues == 2

\* Logger::get_char: the byte at idx, as Option<char>.
get_char(src, len, idx) == IF idx < len THEN <<src[idx + 1]>> ELSE <<>>

\* The loop of Logger::index_input.
RECURSIVE index_input_loop(_, _, _, _)
index_input_loop(src, len, idx, lines) ==
    IF idx < len
    THEN index_input_loop(src, len, idx + 1,
                          IF get_char(src, len, idx) = <<"\n">>
                          THEN Append(lines, idx) ELSE lines)
    ELSE lines

\* Logger::index_input
index_input(src, len) == index_input_loop(src, len, 1, <<0>>)

\* Logger::new
LoggerNew(path, src) ==
    [path |-> path, input |-> src, index |-> index_input(src, Len(src)), len |-> Len(src)]

\* The loop of Logger::pos_to_line; i counts from 0 and index[i] is index[i + 1] here.
RECURSIVE pos_to_line_loop(_, _, _, _)
pos_to_line_loop(index, pos, i, line) ==
    IF i < Len(index) - 1
    THEN IF index[i + 1] <= pos /\ index[i + 2] >= pos
         THEN line
         ELSE pos_to_line_loop(index, pos, i + 1, line + 1)
    ELSE line

\* Logger::pos_to_line
pos_to_line(l, pos) == pos_to_line_loop(l.index, pos, 0, 1)

\* The first loop of Logger::get_current_lines.
RECURSIVE line_start_loop(_, _)
line_start_loop(l, line_start) ==
    IF line_start > 0
    THEN IF get_char(l.input, l.len, line_start - 1) = <<"\n">>
         THEN line_start
         ELSE line_start_loop(l, line_start - 1)
    ELSE line_start

\* The second loop of Logger::get_current_lines.
RECURSIVE line_end_loop(_, _)
line_end_loop(l, line_end) ==
    IF line_end < l.len
    THEN IF get_char(l.input, l.len, line_end + 1) = <<"\n">>
         THEN line_end + 1
         ELSE line_end_loop(l, line_end + 1)
    ELSE line_end

\* Logger::get_current_lines: the bytes [line_start, line_end) of the input.
get_current_lines(l, start, end) ==
    SubSeq(l.input, line_start_loop(l, start) + 1, line_end_loop(l, end))

\* usize::to_string().len()
RECURSIVE DecimalLen(_)
DecimalLen(n) == IF n < 10 THEN 1 ELSE 1 + DecimalLen(n \div 10)

\* Logger::issue: what it prints.  locator is the `path:line:col` line, line the
\* source line after the `<line> | ` prefix, pad the blanks printed before `^`.
issue(l, message) ==
    LET ypos == pos_to_line(l, message.pos)
        xpos == message.pos - l.index[ypos] + 1
    IN  [ level   |-> message.level,
          pos     |-> message.pos,
          title   |-> message.title,
          locator |-> [path |-> l.path, ypos |-> ypos, xpos |-> xpos],
          prefix  |-> DecimalLen(ypos) + 3,
          line    |-> get_current_lines(l, message.pos, message.pos),
          pad     |-> DecimalLen(ypos) + 3 + (IF xpos > ypos THEN xpos - ypos ELSE 0) ]

\* Source texts of the logger: every text of letters and line breaks, a text
\* of three lines, and the text of the logger's test cut to its line shapes.
LogAlphabet == {"a", "\n"}

LogSamples ==
    { <<"a","\n","b","\n","c","d">>,
      <<"l","e","t","\n","l","e","t"," ","m","\n","c","o","n","s","t">> }

LogInputs == SeqsUpTo(LogAlphabet, MaxLen) \cup LogSamples

InitLog ==
    /\ input \in LogInputs
    /\ tokenizer = NoTokenizer
    /\ out = <<>>
    /\ parser = NoParser
    /\ issued = <<>>
    /\ requests = 0
    /\ mp = NoModuleParser
    /\ vp = NoViewParser
    /\ logger = LoggerNew("a.shi", input)

\* One call of Logger::issue with a position in the source or at its end.
LoggerIssue ==
    /\ Len(issued) < MaxIssues
    /\ \E level \in {"Info", "Error"}, pos \in 0..Len(input) :
          issued' = Append(issued,
                           issue(logger, [level |-> level, pos |-> pos,
                                          title |-> "Unresolved symbol"]))
    /\ UNCHANGED <<input, tokenizer, out, parser, requests, mp, vp, logger>>

NextLog == LoggerIssue

SpecLog == InitLog /\ [][NextLog]_vars

----------------------------------------------------------------------------
(* Parser (parser.rs): locations, errors, reporting *)

\* Loc { start, end }
Loc(start, end) == [start |-> start, end |-> end]

\* impl From<TokenLoc> for Loc
FromTokenLoc(item) == Loc(item.starts_at, item.starts_at + item.len)

\* ParseError::SyntaxError { loc } and ParseError::TokenizeError { loc, error }
SyntaxError(loc) == [variant |-> "SyntaxError", loc |-> loc, error |-> "-"]

TokenizeError(loc, error) == [variant |-> "TokenizeError", loc |-> loc, error |-> error]

NoError == [variant |-> "-", loc |-> Loc(0, 0), error |-> "-"]

\* The parser's mutable state while parse_all() runs: its tokenizer, its two
\* token slots, what its logger has printed, and the next() calls it has made.
Machine(t, previous, current, log, n, panicked) ==
    [ tokenizer |-> t, previous |-> previous, current |-> current,
      issued |-> log, requests |-> n, panicked |-> panicked ]

\* A report that also drops the parser's current token.
Issue_dropping_current(m, level, pos, title) ==
    [m EXCEPT !.issued = Append(@, [level |-> level, pos |-> pos, title |-> title]),
              !.current = <<>>]

\* Logger::issue: prints the message; the printed messages are kept in order.
Issue(m, level, pos, title) ==
    [m EXCEPT !.issued = Append(@, [level |-> level, pos |-> pos, title |-> title])]

\* ParseResult<T>: Ok(val), Err(err), or no return at all (an endless loop).
Success(m, val) == [m |-> m, status |-> "ok", val |-> val, err |-> NoError]

Failure(m, err) == [m |-> m, status |-> "err", val |-> <<>>, err |-> err]

Endless(m) == [m |-> m, status |-> "loop", val |-> <<>>, err |-> NoError]

\* Parser::syntax_error
syntax_error(m, title, loc) ==
    Failure(Issue(m, "Error", loc.start, title), SyntaxError(loc))

\* Parser::tokenize_error
tokenize_error(m, error, loc) ==
    LET title == CASE error = "UnexpectedToken"           -> "Unexpected token"
                   [] error = "UnterminatedStringLiteral" -> "Unterminated string"
                   [] OTHER                               -> "Tokenizer error"
    IN  Failure(Issue(m, "Error", loc.start, title), TokenizeError(loc, error))

\* Tokenizer::get_current_idx, which parser.rs calls and tokenizer.rs lacks.
get_current_idx(t) == t.current_idx

\* Tokenizer::get_current_loc, which parser.rs calls and tokenizer.rs lacks.
get_current_loc(t) == TokenLoc(t.current_idx, 0)

\* TokenizerErr::loc, which parser.rs calls and tokenizer.rs lacks.
ErrLoc(res) == TokenLoc(res.at, 0)

\* Parser::consume_token
consume_token(m) ==
    LET r == next(m.tokenizer)
    IN  [ m EXCEPT !.tokenizer = r.t,
                   !.previous  = m.current,
                   !.current   = r.res.res,
                   !.requests  = @ + 1,
                   !.panicked  = @ \/ r.res.panic ]

\* unwrap_current reporting a lexical error as a syntax error at the cursor.
unwrap_current_as_syntax(m) ==
    IF m.current # <<>> /\ m.current[1].ok
    THEN Success(m, <<m.current[1].tok>>)
    ELSE syntax_error(m, "Unterminated token",
                      FromTokenLoc(get_current_loc(m.tokenizer)))

\* Parser::unwrap_current
unwrap_current(m) ==
    IF m.current # <<>>
    THEN IF m.current[1].ok
         THEN Success(m, <<m.current[1].tok>>)
         ELSE tokenize_error(m, m.current[1].err, FromTokenLoc(ErrLoc(m.current[1])))
    ELSE syntax_error(m, "Unterminated token",
                      FromTokenLoc(get_current_loc(m.tokenizer)))

\* Parser::unwrap_current_or_none
unwrap_current_or_none(m) ==
    IF m.current # <<>>
    THEN IF m.current[1].ok
         THEN Success(m, <<m.current[1].tok>>)
         ELSE tokenize_error(m, m.current[1].err, FromTokenLoc(ErrLoc(m.current[1])))
    ELSE Success(m, <<>>)

\* NodeIdentifier { value, loc }
NodeIdentifier(value, loc) == [value |-> value, loc |-> loc]

\* Parser::try_parsing_identifier
try_parsing_identifier(m) ==
    LET u == unwrap_current(m)
    IN  IF u.status # "ok" THEN u
        ELSE IF u.val[1].con.kind = "Identifier"
             THEN Success(u.m, <<NodeIdentifier(u.val[1].con.text,
                                                FromTokenLoc(u.val[1].loc))>>)
             ELSE Success(u.m, <<>>)

\* Parser::expect_identifier
expect_identifier(m) ==
    LET u == unwrap_current(m)
    IN  IF u.status # "ok" THEN u
        ELSE LET i == try_parsing_identifier(u.m)
             IN  IF i.status # "ok" THEN i
                 ELSE IF i.val # <<>>
                      THEN i
                      ELSE syntax_error(i.m, "Invalid identifier",
                                        FromTokenLoc(u.val[1].loc))

\* Parser::expect_assignment_op
expect_assignment_op(m) ==
    LET u == unwrap_current(m)
    IN  IF u.status # "ok" THEN u
        ELSE IF u.val[1].con.kind = "AssignmentOp"
             THEN Success(u.m, <<[loc |-> FromTokenLoc(u.val[1].loc)]>>)
             ELSE Failure(u.m, SyntaxError(FromTokenLoc(u.val[1].loc)))

\* Parser::expect_structured: after `{` it is `loop { self.consume_token(); }`,
\* a loop with no exit.
expect_structured(m) ==
    LET u == unwrap_current(m)
    IN  IF u.status # "ok" THEN u
        ELSE IF u.val[1].con.kind = "BraceLeft"
             THEN Endless(u.m)
             ELSE syntax_error(u.m, "Invalid structured", FromTokenLoc(u.val[1].loc))

\* Parser::expect_value.  Its last arm builds a SyntaxError without reporting it.
expect_value(m) ==
    LET u == unwrap_current(m)
    IN  IF u.status # "ok" THEN u
        ELSE CASE u.val[1].con.kind = "BraceLeft"  -> expect_structured(u.m)
               [] u.val[1].con.kind = "Identifier" -> expect_identifier(u.m)
               [] OTHER -> Failure(u.m, SyntaxError(FromTokenLoc(u.val[1].loc)))

\* Parser::expect_params, which parse_module calls and parser.rs lacks: the
\* optional parameter list of a binding, present when the current token is `(`.
expect_params(m) ==
    IF m.current # <<>> /\ m.current[1].ok
       /\ m.current[1].tok.con.kind = "ParenthesisLeft"
    THEN Success(m, <<m.current[1].tok>>)
    ELSE Failure(m, NoError)

\* Parser::try_parsing_string_literal, which parse_module calls and parser.rs
\* lacks: Some for a string literal, None for anything else, Err for a lexical error.
try_parsing_string_literal(m) ==
    LET u == unwrap_current_or_none(m)
    IN  IF u.status # "ok" THEN u
        ELSE IF u.val # <<>> /\ u.val[1].con.kind = "StringLiteral"
             THEN u
             ELSE Success(u.m, <<>>)

\* Parser::try_parsing_namespace, which parse_module calls and parser.rs lacks:
\* Some for an identifier, None for anything else, Err for a lexical error.
try_parsing_namespace(m) ==
    LET u == unwrap_current_or_none(m)
    IN  IF u.status # "ok" THEN u
        ELSE IF u.val # <<>> /\ u.val[1].con.kind = "Identifier"
             THEN u
             ELSE Success(u.m, <<>>)

----------------------------------------------------------------------------
(* Parser::parse_module, one statement at a time *)

\* The arm TokenContent::Let of parse_module, from its last statement to its
\* first: each operator takes the result of the call before it.
let_after_value(value) ==
    IF value.status # "ok" THEN value ELSE Success(consume_token(value.m), <<>>)

let_after_op(op) ==
    IF op.status # "ok" THEN op
    ELSE let_after_value(expect_value(consume_token(op.m)))

let_after_params(params) ==
    let_after_op(expect_assignment_op(IF params.status = "ok"
                                      THEN consume_token(params.m)
                                      ELSE params.m))

let_after_name(name) ==
    IF name.status # "ok" THEN name
    ELSE let_after_params(expect_params(consume_token(name.m)))

stmt_let(m) == let_after_name(expect_identifier(consume_token(m)))

\* The import arm reporting its error at the cursor instead of at `import`.
import_after_namespace_at_cursor(ns, res) ==
    IF ns.status # "ok" THEN ns
    ELSE IF ns.val # <<>> THEN Success(ns.m, <<>>)
    ELSE syntax_error(ns.m, "Unexpected value",
                      FromTokenLoc(get_current_loc(ns.m.tokenizer)))

\* The arm TokenContent::Import of parse_module; res is the `import` token.
import_after_namespace(ns, res) ==
    IF ns.status # "ok" THEN ns
    ELSE IF ns.val # <<>> THEN Success(ns.m, <<>>)
    ELSE syntax_error(ns.m, "Unexpected value", FromTokenLoc(res.loc))

import_after_string(str, res) ==
    IF str.status # "ok" THEN str
    ELSE IF str.val # <<>> THEN Success(str.m, <<>>)
    ELSE import_after_namespace(try_parsing_namespace(str.m), res)

stmt_import(m, res) ==
    import_after_string(try_parsing_string_literal(consume_token(m)), res)

\* The arm TokenContent::Identifier of parse_module.
stmt_identifier(m) ==
    LET ident == expect_identifier(consume_token(m))
    IN  IF ident.status # "ok" THEN ident ELSE Success(ident.m, <<>>)

\* The arm `_` of parse_module.
stmt_other(m) == Success(consume_token(m), <<>>)

\* NodeModule and NodeFile
NodeModule(loc, name, nodes) == [loc |-> loc, name |-> name, nodes |-> nodes]

NodeFile(loc, name, modules) == [loc |-> loc, name |-> name, modules |-> modules]

NoFile == NodeFile(Loc(0, 0), "-", <<>>)

\* The file name handed to Parser::new.
FileName == "a.shi"

\* ParseResult<NodeFile>
FileOk(file) == [ok |-> TRUE, file |-> file, err |-> NoError]

FileErr(err) == [ok |-> FALSE, file |-> NoFile, err |-> err]

----------------------------------------------------------------------------
(* Source texts of the parser *)

\* Pieces of source text: statements' words with the blank that follows them,
\* words with none, characters the tokenizer rejects, an unterminated string.
ParseVocabulary ==
    { <<"l","e","t"," ">>,
      <<"i","m","p","o","r","t"," ">>,
      <<"x"," ">>,
      <<"y">>,
      <<"9","1"," ">>,
      <<"\"","s","\"">>,
      <<"="," ">>,
      <<"{"," ">>,
      <<"<">>,
      <<"\"","u">>,
      <<" ">> }

\* Source texts of the specification's examples.
LetXBraces == <<"l","e","t"," ","x"," ","="," ","{"," ","}">>

ParseSamples ==
    { LetXBraces,
      <<"i","m","p","o","r","t">>,
      <<"x">>,
      <<"9","1">>,
      <<"f","o","r","t">>,
      <<"l","e","t"," ","x"," ","="," ","y">>,
      <<"<","x"," ","/",">">>,
      <<"<","x"," ","/",">"," ","y">> }

ParseInputs ==
    {Flatten(chunks) : chunks \in SeqsUpTo(ParseVocabulary, MaxChunks)}
        \cup ParseSamples

----------------------------------------------------------------------------
(* Parser::new and Parser::parse_all *)

InitParse ==
    /\ input \in ParseInputs
    /\ tokenizer = NoTokenizer
    /\ out = <<>>
    /\ parser = [ pc |-> "new", previous |-> <<>>, current |-> <<>>, start |-> 0,
                  nodes |-> <<>>, result |-> <<>> ]
    /\ issued = <<>>
    /\ requests = 0
    /\ mp = NoModuleParser
    /\ vp = NoViewParser
    /\ logger = NoLogger

\* The parser's state as the operators above take it.
ThisMachine == Machine(tokenizer, parser.previous, parser.current, issued, requests, FALSE)

\* The current token of a parser that stands at the head of parse_module's loop.
AtStatement == parser.pc = "parse_module" /\ parser.current # <<>>

CurrentKind == parser.current[1].tok.con.kind

\* The step of parse_all() that ends with r: the `?` returns an Err at once, an
\* Ok goes back to the head of the loop.
Step(r) ==
    /\ tokenizer' = r.m.tokenizer
    /\ issued' = r.m.issued
    /\ requests' = r.m.requests
    /\ parser' =
         [ parser EXCEPT
             !.previous = r.m.previous,
             !.current  = r.m.current,
             !.pc       = CASE r.m.panicked      -> "panicked"
                            [] r.status = "ok"   -> "parse_module"
                            [] r.status = "err"  -> "done"
                            [] r.status = "loop" -> "looping",
             !.result   = IF ~r.m.panicked /\ r.status = "err"
                          THEN <<FileErr(r.err)>> ELSE @ ]
    /\ UNCHANGED <<input, out, mp, vp, logger>>

\* Parser::new: builds the tokenizer (which panics on an empty input) and the
\* logger, and reads the first token.
ParserNew ==
    /\ parser.pc = "new"
    /\ IF input = <<>>
       THEN /\ parser' = [parser EXCEPT !.pc = "panicked"]
            /\ UNCHANGED <<tokenizer, requests, logger>>
       ELSE LET r == next(TokenizerNew(input))
            IN  /\ tokenizer' = r.t
                /\ logger' = LoggerNew(FileName, input)
                /\ requests' = requests + 1
                /\ parser' = [ parser EXCEPT
                                 !.current = r.res.res,
                                 !.pc = IF r.res.panic THEN "panicked"
                                        ELSE "parse_file" ]
    /\ UNCHANGED <<input, out, issued, mp, vp>>

\* Parser::parse_all -> parse_file: reads the start offset, enters parse_module.
ParseFile ==
    /\ parser.pc = "parse_file"
    /\ parser' = [ parser EXCEPT !.start = get_current_idx(tokenizer),
                                 !.pc = "parse_module" ]
    /\ UNCHANGED <<input, tokenizer, out, issued, requests, mp, vp, logger>>

\* The head of parse_module's loop meets a lexical error.
ModuleTokenizeError ==
    /\ AtStatement
    /\ ~parser.current[1].ok
    /\ Step(unwrap_current_or_none(ThisMachine))

StmtLet ==
    /\ AtStatement
    /\ parser.current[1].ok
    /\ CurrentKind = "Let"
    /\ Step(stmt_let(ThisMachine))

StmtImport ==
    /\ AtStatement
    /\ parser.current[1].ok
    /\ CurrentKind = "Import"
    /\ Step(stmt_import(ThisMachine, parser.current[1].tok))

StmtIdentifier ==
    /\ AtStatement
    /\ parser.current[1].ok
    /\ CurrentKind = "Identifier"
    /\ Step(stmt_identifier(ThisMachine))

StmtOther ==
    /\ AtStatement
    /\ parser.current[1].ok
    /\ CurrentKind \notin {"Let", "Import", "Identifier"}
    /\ Step(stmt_other(ThisMachine))

\* No token is left: parse_module returns the module and parse_file the file.
\* parse_module reads its own start offset right after parse_file read its.
ModuleEnd ==
    /\ parser.pc = "parse_module"
    /\ parser.current = <<>>
    /\ LET end    == get_current_idx(tokenizer)
           module == NodeModule(Loc(parser.start, end), "<file>", parser.nodes)
       IN  parser' =
             [ parser EXCEPT
                 !.pc = "done",
                 !.result = <<FileOk(NodeFile(Loc(parser.start, end), FileName,
                                              <<module>>))>> ]
    /\ UNCHANGED <<input, tokenizer, out, issued, requests, mp, vp, logger>>

NextParse ==
    \/ ParserNew
    \/ ParseFile
    \/ ModuleTokenizeError
    \/ StmtLet
    \/ StmtImport
    \/ StmtIdentifier
    \/ StmtOther
    \/ ModuleEnd

SpecParse == InitParse /\ [][NextParse]_vars

----------------------------------------------------------------------------
(* ModuleParser (parser/module.rs): the step machine and its parse_all() *)

InitModule ==
    /\ input \in LexInputs
    /\ tokenizer = TokenizerNew(input)
    /\ out = <<>>
    /\ parser = NoParser
    /\ issued = <<>>
    /\ requests = 0
    /\ mp = [ state |-> "Ready", token |-> <<>>, error |-> "-", pending |-> <<>>,
              outcome |-> "running" ]
    /\ vp = NoViewParser
    /\ logger = NoLogger

\* ModuleParser::advance in the state Ready, next() having returned r.
\* state.take() has left Ready behind, so both assert!(.. .is_ready()) pass.
advance_ready(r) ==
    IF r.res.panic
    THEN [mp EXCEPT !.outcome = "panicked"]
    ELSE IF r.res.res # <<>>
         THEN [mp EXCEPT !.state = "PendingToken", !.token = r.res.res]
         ELSE [mp EXCEPT !.state = "EOF"]

\* One turn of the loop of ModuleParser::parse_all: a call of advance() and the
\* match on what it returns.  advance() starts with state.take(), which leaves
\* Ready; parse_token is todo!(), a panic; pending is set nowhere.
MAdvance ==
    /\ mp.outcome = "running"
    /\ CASE mp.state = "Ready" ->
              /\ tokenizer' = next(tokenizer).t
              /\ mp' = advance_ready(next(tokenizer))
         [] mp.state = "PendingToken" ->
              /\ mp' = [mp EXCEPT !.state = "Ready", !.token = <<>>,
                                  !.outcome = "panicked"]
              /\ UNCHANGED tokenizer
         [] mp.state = "PendingParseError" ->
              /\ mp' = [mp EXCEPT !.state = "Ready", !.outcome = "ParseError"]
              /\ UNCHANGED tokenizer
         [] mp.state = "EOF" ->
              /\ mp' = [mp EXCEPT !.state = "Ready", !.pending = <<>>,
                                  !.outcome = IF mp.pending # <<>> THEN "Done"
                                              ELSE "panicked"]
              /\ UNCHANGED tokenizer
    /\ UNCHANGED <<input, out, parser, issued, requests, vp, logger>>

NextModule == MAdvance

SpecModule == InitModule /\ [][NextModule]_vars

----------------------------------------------------------------------------
(* Words of a source text, found without the tokenizer *)

\* The maximal runs of non-whitespace characters of src from position i on,
\* each with the offset of its first character; cur is the run being read.
RECURSIVE WordsFrom(_, _, _, _)
WordsFrom(src, i, cur, acc) ==
    IF i > Len(src)
    THEN IF cur.text = <<>> THEN acc ELSE Append(acc, cur)
    ELSE IF IsWhitespace(src[i])
         THEN WordsFrom(src, i + 1, [start |-> i, text |-> <<>>],
                        IF cur.text = <<>> THEN acc ELSE Append(acc, cur))
         ELSE WordsFrom(src, i + 1,
                        [start |-> IF cur.text = <<>> THEN i - 1 ELSE cur.start,
                         text  |-> Append(cur.text, src[i])],
                        acc)

Words(src) == WordsFrom(src, 1, [start |-> 0, text |-> <<>>], <<>>)

\* A reserved word is a prefix of w (w itself included).
StartsWithReserved(w) == \E k \in 1..Len(w) : TryFromStr(SubSeq(w, 1, k)) # "-"

\* A reserved word is a prefix of w and shorter than w.
HasReservedStrictPrefix(w) == \E k \in 1..(Len(w) - 1) : TryFromStr(SubSeq(w, 1, k)) # "-"

\* w consists of identifier characters and starts as an identifier starts.
IsIdentifierWord(w) ==
    /\ w # <<>>
    /\ IsAsciiLetter(w[1]) \/ w[1] \in {"_", "$"}
    /\ \A i \in 1..Len(w) : IsIdentifierChar(w[i])

IsDigitRun(w) == w # <<>> /\ \A i \in 1..Len(w) : IsDigit(w[i])

\* The token a word is expected to give.
WordToken(w) ==
    Token(TokenLoc(w.start, Len(w.text)),
          Content(IF IsDigitRun(w.text) THEN "NumberLiteral" ELSE "Identifier", w.text))

\* The results of successive next() calls on src up to and including the first
\* None, Err or panic.
RECURSIVE Drain(_, _)
Drain(t, acc) ==
    LET r == next(t)
    IN  IF r.res.panic \/ r.res.res = <<>> \/ ~r.res.res[1].ok
        THEN Append(acc, r.res)
        ELSE Drain(r.t, Append(acc, r.res))

TokenStream(src) == Drain(TokenizerNew(src), <<>>)

\* parse_all() has stopped, by a return or otherwise.
Stopped == parser.pc \in {"done", "looping", "panicked"}

Result == parser.result[1]

----------------------------------------------------------------------------
(* Claims *)

\* C1: a word of identifier characters that has a reserved word as a strict
\* prefix and is not a reserved word itself comes back from the first next() as
\* one Identifier token holding the whole word, at offset 0 with the word's length.
C1_MaximalMunch ==
    ( /\ IsIdentifierWord(input)
      /\ HasReservedStrictPrefix(input)
      /\ TryFromStr(input) = "-"
      /\ Len(out) >= 1 )
    => out[1] = Returned(<<Ok(Token(TokenLoc(0, Len(input)),
                                    Content("Identifier", input)))>>)

\* C2: parse_all() on `let x = { }` returns Ok, and the one module of the file
\* has exactly one node, named x.
C2_LetBindingParses ==
    (input = LetXBraces /\ Stopped)
    => /\ parser.pc = "done"
       /\ Result.ok
       /\ Len(Result.file.modules) = 1
       /\ Len(Result.file.modules[1].nodes) = 1
       /\ Result.file.modules[1].nodes[1].name.value = <<"x">>

\* C3: parse_all() ends by returning Done/Ok or a ParseError: at every moment
\* it is still running (and can take its next step) or has returned one of them.
C3_ParseAllReturns == mp.outcome \in {"running", "Done", "ParseError"}

\* C4: a token at statement position that is not `let`, `import`, an identifier
\* or `<` ends parse_all() with a SyntaxError at that token's location, reported
\* once, and no further token is requested.
C4_StrayTokenIsSyntaxError ==
    [][ ( /\ AtStatement
          /\ parser.current[1].ok
          /\ CurrentKind \notin {"Let", "Import", "Identifier", "TagAngleBracketLeft"} )
        => /\ parser'.pc = "done"
           /\ parser'.result =
                 <<FileErr(SyntaxError(FromTokenLoc(parser.current[1].tok.loc)))>>
           /\ Len(issued') = Len(issued) + 1
           /\ requests' = requests ]_vars

\* The token after the current one is no string literal and no identifier: it
\* is another token, or there is none.
NextIsNoImportTarget ==
    LET nx == next(tokenizer).res
    IN  IF nx.panic THEN FALSE
        ELSE IF nx.res = <<>> THEN TRUE
        ELSE IF ~nx.res[1].ok THEN FALSE
        ELSE nx.res[1].tok.con.kind \notin {"StringLiteral", "Identifier"}

\* C5: when `import` is followed by a token that is neither a string literal
\* nor an identifier, or by no token, parse_all() returns a SyntaxError whose
\* loc.start is the start offset of the `import` token.
C5_ImportErrorAtImport ==
    [][ ( /\ AtStatement
          /\ parser.current[1].ok
          /\ CurrentKind = "Import"
          /\ NextIsNoImportTarget )
        => /\ parser'.pc = "done"
           /\ ~parser'.result[1].ok
           /\ parser'.result[1].err.variant = "SyntaxError"
           /\ parser'.result[1].err.loc.start = parser.current[1].tok.loc.starts_at
      ]_vars

\* An `import` that does not start the source was followed by a number and
\* parse_all() has returned the error of the import arm.
C5_Witness ==
    /\ parser.pc = "done"
    /\ ~Result.ok
    /\ parser.previous # <<>>
    /\ parser.previous[1].tok.con.kind = "Import"
    /\ parser.previous[1].tok.loc.starts_at > 0
    /\ parser.current # <<>>
    /\ parser.current[1].tok.con.kind = "NumberLiteral"
    /\ issued # <<>>
    /\ issued[Len(issued)].title = "Unexpected value"

\* C6: nothing is reported while parse_all() runs without error; when it has
\* returned an error, Logger::issue was called exactly once, with that error's
\* position; when it has returned Ok, never.
C6_EveryErrorReportedOnce ==
    IF parser.pc = "done" /\ ~Result.ok
    THEN Len(issued) = 1 /\ issued[1].pos = Result.err.loc.start
    ELSE issued = <<>>

\* C7: the parser requests tokens only up to the first lexical error; a returned
\* error is a TokenizeError exactly when the last token requested was that
\* lexical error, and it carries the tokenizer's error kind.
C7_FailFast ==
    input # <<>> /\ requests >= 1
    => LET S == TokenStream(input)
       IN  /\ requests <= Len(S)
           /\ \A i \in 1..(requests - 1) : S[i].res # <<>> /\ S[i].res[1].ok
           /\ (parser.pc = "done" /\ ~Result.ok)
                => LET last    == S[requests].res
                       lexical == last # <<>> /\ ~last[1].ok
                   IN  /\ lexical <=> Result.err.variant = "TokenizeError"
                       /\ lexical => Result.err.error = last[1].err

\* A lexical error met after two good tokens has been returned as TokenizeError.
C7_Witness ==
    /\ parser.pc = "done"
    /\ ~Result.ok
    /\ Result.err.variant = "TokenizeError"
    /\ Result.err.error = "UnterminatedStringLiteral"
    /\ requests = 3

\* C9: a file returned by parse_all() spans the source: loc.start = 0 and
\* loc.end = the end offset of the source.
C9_FileSpansSource ==
    (parser.pc = "done" /\ Result.ok)
    => Result.file.loc.start = 0 /\ Result.file.loc.end = Len(input)

\* The source consists of identifier words that start with no reserved word and
\* of digit runs, separated by whitespace.
WordsOnly(src) ==
    \A i \in 1..Len(Words(src)) :
        LET w == Words(src)[i].text
        IN  IsDigitRun(w) \/ (IsIdentifierWord(w) /\ ~StartsWithReserved(w))

----------------------------------------------------------------------------
(* Source bytes and token texts *)

\* The UTF-8 encoding of a character: U+00E9 takes two bytes, ASCII one.
Utf8(c) == IF c = "U+00E9" THEN <<"0xC3", "0xA9">> ELSE <<c>>

\* The bytes of a text.
Bytes(src) == Flatten([i \in 1..Len(src) |-> Utf8(src[i])])

\* The text a token stands for: what it carries, or the spelling of its kind.
TokenText(tok) ==
    CASE tok.con.kind \in {"Identifier", "NumberLiteral", "StringLiteral", "Anchor"} ->
            tok.con.text
      [] tok.con.kind = "TagAngleBracketLeft"  -> <<"<">>
      [] tok.con.kind = "TagAngleBracketRight" -> <<">">>
      [] OTHER -> (CHOOSE e \in ReservedTable : e[2] = tok.con.kind)[1]

\* The i-th next() call has returned Ok(token).
IsOkAt(i) == ~out[i].panic /\ out[i].res # <<>> /\ out[i].res[1].ok

TokAt(i) == out[i].res[1].tok

AllDigits(src) == src # <<>> /\ \A i \in 1..Len(src) : IsDigit(src[i])

\* C11: on an input of decimal digits only, the first next() returns the
\* NumberLiteral of the whole input at offset 0 with len the number of digits,
\* and every later next() returns None.
C11_DigitsAreOneNumber ==
    AllDigits(input)
    => \A i \in 1..Len(out) :
          out[i] = IF i = 1
                   THEN Returned(<<Ok(Token(TokenLoc(0, Len(input)),
                                            Content("NumberLiteral", input)))>>)
                   ELSE Returned(<<>>)

\* Two digits have been lexed and the second next() has returned None.
C11_Witness ==
    /\ AllDigits(input)
    /\ Len(input) >= 2
    /\ Len(out) = 2
    /\ out[1].res # <<>>
    /\ out[2] = Returned(<<>>)

\* src is `"` + body + `"` with no `"` in body.
IsQuoted(src) ==
    /\ Len(src) >= 2
    /\ src[1] = "\"" /\ src[Len(src)] = "\""
    /\ \A i \in 2..(Len(src) - 1) : src[i] # "\""

\* C12: on an input `"` + body + `"` (no `"` in body) the first next() returns
\* one StringLiteral whose content is the input, quotes included, at offset 0
\* with len the full byte length of the input.
C12_StringRoundTrip ==
    (IsQuoted(input) /\ Len(out) >= 1)
    => out[1] = Returned(<<Ok(Token(TokenLoc(0, Len(Bytes(input))),
                                    Content("StringLiteral", input)))>>)

\* src is whitespace, then one `"`, then characters other than `"`.
IsUnterminated(src) ==
    \E p \in 1..Len(src) :
        /\ src[p] = "\""
        /\ \A i \in 1..(p - 1) : IsWhitespace(src[i])
        /\ \A i \in (p + 1)..Len(src) : src[i] # "\""

QuoteOffset(src) == (CHOOSE p \in 1..Len(src) : src[p] = "\"") - 1

\* C13: when the opening `"` is never closed, the first next() returns
\* Err(UnterminatedStringLiteral) and the error carries the offset of the
\* opening quote.
C13_UnterminatedAtStart ==
    (IsUnterminated(input) /\ Len(out) >= 1)
    => /\ ~out[1].panic /\ out[1].res # <<>> /\ ~out[1].res[1].ok
       /\ out[1].res[1].err = "UnterminatedStringLiteral"
       /\ TokenizerErrLoc(out[1].res[1]) = <<QuoteOffset(input)>>

\* Names and anchors of the tags among the source texts.
TagNames == { <<"E","l">>, <<"x">>, <<"f","o","r","t">> }

TagAnchors == { <<"a","n">>, <<"a","s">>, <<"a">> }

SelfClosingTag(name, anchor) ==
    <<"<">> \o name \o <<"#">> \o anchor \o <<" ", "/", ">">>

\* The results next() is to give on `<name#anchor />`, call by call.
SelfClosingTokens(name, anchor) ==
    << Returned(<<Ok(Token(TokenLoc(0, 1), Content("TagAngleBracketLeft", <<>>)))>>),
       Returned(<<Ok(Token(TokenLoc(1, Len(name)), Content("Identifier", name)))>>),
       Returned(<<Ok(Token(TokenLoc(1 + Len(name), 1 + Len(anchor)),
                           Content("Anchor", <<"#">> \o anchor)))>>),
       Returned(<<Ok(Token(TokenLoc(3 + Len(name) + Len(anchor), 2),
                           Content("TagAngleSelfClosingRight", <<>>)))>>) >>

\* C14: `<Name#anchor />` lexes to the four tokens `<`, Identifier(Name),
\* Anchor(#anchor), `/>`, each at the offset of its first character with the
\* length of its text, and to nothing after them.
C14_SelfClosingTag ==
    \A name \in TagNames, anchor \in TagAnchors :
        input = SelfClosingTag(name, anchor)
        => \A i \in 1..Len(out) :
              out[i] = IF i <= 4 THEN SelfClosingTokens(name, anchor)[i]
                       ELSE Returned(<<>>)

\* The token each punctuation character is to give: the variant of TokenContent
\* named after it (impl TryFrom<char> for TokenContent lists five of the nine).
Punctuation ==
    { <<"(", "ParenthesisLeft">>, <<")", "ParenthesisRight">>,
      <<"{", "BraceLeft">>, <<"}", "BraceRight">>,
      <<"[", "SquareBracketLeft">>, <<"]", "SquareBracketRight">>,
      <<"=", "AssignmentOp">>, <<"+", "AddOp">>, <<"&", "BitwiseAndOp">> }

\* C15: a punctuation character at the start of the input comes back from the
\* first next() as Ok with its one-character token.
C15_PunctuationLexes ==
    \A e \in Punctuation :
        (input[1] = e[1] /\ Len(out) >= 1)
        => out[1] = Returned(<<Ok(Token(TokenLoc(0, 1), Content(e[2], <<>>)))>>)

ClosingTag(name) == <<"<", "/">> \o name \o <<">">>

ClosingTokens(name) ==
    << Returned(<<Ok(Token(TokenLoc(0, 2), Content("TagAngleClosingLeft", <<>>)))>>),
       Returned(<<Ok(Token(TokenLoc(2, Len(name)), Content("Identifier", name)))>>),
       Returned(<<Ok(Token(TokenLoc(2 + Len(name), 1),
                           Content("TagAngleBracketRight", <<>>)))>>) >>

\* C16: `</Name>` lexes to TagAngleClosingLeft of length 2, Identifier(Name)
\* and `>`, without error.
C16_ClosingTag ==
    \A name \in TagNames :
        input = ClosingTag(name)
        => \A i \in 1..Len(out) :
              out[i] = IF i <= 3 THEN ClosingTokens(name)[i] ELSE Returned(<<>>)

\* C17: no next() returns Ok(Identifier(w)) with w ending in `-`.
C17_NoTrailingHyphen ==
    \A i \in 1..Len(out) :
        (IsOkAt(i) /\ TokAt(i).con.kind = "Identifier")
        => LET w == TokAt(i).con.text
           IN  w # <<>> /\ w[Len(w)] # "-"

\* C18: a `#` at the start of the input with no letter after it makes the
\* first next() return Err(EmptyElementIdentifier), and every Anchor returned
\* holds a letter after its `#`.
C18_EmptyAnchorIsError ==
    /\ ( /\ input[1] = "#"
         /\ (Len(input) = 1 \/ ~IsAlphabetic(input[2]))
         /\ Len(out) >= 1 )
       => /\ ~out[1].panic /\ out[1].res # <<>> /\ ~out[1].res[1].ok
          /\ out[1].res[1].err = "EmptyElementIdentifier"
    /\ \A i \in 1..Len(out) :
          (IsOkAt(i) /\ TokAt(i).con.kind = "Anchor")
          => Len(TokAt(i).con.text) >= 2 /\ IsAlphabetic(TokAt(i).con.text[2])

\* C19: the bytes of the source in [starts_at, starts_at + len) of every token
\* returned are the bytes of the token's text.
C19_LocsAreByteOffsets ==
    \A i \in 1..Len(out) :
        IsOkAt(i)
        => LET loc == TokAt(i).loc
               b   == Bytes(input)
           IN  /\ loc.starts_at + loc.len <= Len(b)
               /\ SubSeq(b, loc.starts_at + 1, loc.starts_at + loc.len)
                    = Bytes(TokenText(TokAt(i)))

\* C20: of two tokens returned by consecutive next() calls, the first ends
\* where the second starts or before.
C20_TokensDoNotOverlap ==
    \A i \in 1..(Len(out) - 1) :
        (IsOkAt(i) /\ IsOkAt(i + 1))
        => TokAt(i).loc.starts_at + TokAt(i).loc.len <= TokAt(i + 1).loc.starts_at

\* Only whitespace, or nothing, is left from the cursor of t on.
OnlyWhitespaceLeft(t) ==
    /\ t.current = None \/ IsWhitespace(t.current)
    /\ \A i \in 1..Len(t.itr) : IsWhitespace(t.itr[i])

\* C21: a next() call returns None exactly when only whitespace or nothing was
\* left after the cursor, and a call made after one that returned None returns
\* None again and leaves the tokenizer, cursor and pushback buffer, as it was.
C21_EndOfInputIsStable ==
    [][ /\ (out'[Len(out')] = Returned(<<>>)) <=> OnlyWhitespaceLeft(tokenizer)
        /\ (out # <<>> /\ out[Len(out)] = Returned(<<>>))
             => (out'[Len(out')] = Returned(<<>>) /\ tokenizer' = tokenizer) ]_vars

\* After a token and trailing whitespace, next() has returned None twice.
C21_Witness ==
    /\ Len(out) >= 3
    /\ out[Len(out) - 2].res # <<>>
    /\ out[Len(out) - 1] = Returned(<<>>)
    /\ out[Len(out)] = Returned(<<>>)
    /\ IsWhitespace(input[Len(input)])

\* The 1-based number of the line that holds offset pos: one more than the
\* line breaks before pos.
LineOf(src, pos) == 1 + Cardinality({i \in 1..pos : src[i] = "\n"})

\* The offset at which the line that holds pos starts.
LineStartOf(src, pos) ==
    LET breaks == {i \in 1..pos : src[i] = "\n"}
    IN  IF breaks = {} THEN 0 ELSE CHOOSE i \in breaks : \A j \in breaks : j <= i

\* The 1-based column of pos in its line.
ColOf(src, pos) == pos - LineStartOf(src, pos) + 1

\* C22: the locator of every message issued for an offset of the source names
\* the 1-based line that holds the offset and the 1-based column of the offset
\* in that line.
C22_LocatorIsLineAndColumn ==
    \A i \in 1..Len(issued) :
        issued[i].pos < Len(input)
        => /\ issued[i].locator.ypos = LineOf(input, issued[i].pos)
           /\ issued[i].locator.xpos = ColOf(input, issued[i].pos)

\* C23: in every message issued for an offset of the source, the blanks before
\* `^` are as many as the `<line> | ` prefix is long plus the column of the
\* offset less one.
C23_CaretUnderColumn ==
    \A i \in 1..Len(issued) :
        issued[i].pos < Len(input)
        => issued[i].pad = issued[i].prefix + ColOf(input, issued[i].pos) - 1

\* The statement parse_module runs on the current token of m.
Statement(m) ==
    CASE m.current[1].tok.con.kind = "Let"        -> stmt_let(m)
      [] m.current[1].tok.con.kind = "Import"     -> stmt_import(m, m.current[1].tok)
      [] m.current[1].tok.con.kind = "Identifier" -> stmt_identifier(m)
      [] OTHER                                    -> stmt_other(m)

\* What a parsing step gives apart from the messages printed.
Unreported(r) ==
    [ status |-> r.status, val |-> r.val, err |-> r.err,
      tokenizer |-> r.m.tokenizer, previous |-> r.m.previous,
      current |-> r.m.current, requests |-> r.m.requests, panicked |-> r.m.panicked ]

IsBareIdentifier(src) ==
    /\ Len(Words(src)) = 1
    /\ IsIdentifierWord(Words(src)[1].text)
    /\ ~StartsWithReserved(Words(src)[1].text)

\* C25: parse_all() on a source that is one bare identifier returns Ok.
C25_BareIdentifierParses ==
    (IsBareIdentifier(input) /\ Stopped) => (parser.pc = "done" /\ Result.ok)

\* C26: parse_all() on the self-closing element `<x />` returns Ok, and the
\* module of the file has exactly one node, a View.
C26_ViewElementBecomesNode ==
    (input = <<"<", "x", " ", "/", ">">> /\ Stopped)
    => /\ parser.pc = "done"
       /\ Result.ok
       /\ Len(Result.file.modules[1].nodes) = 1
       /\ Result.file.modules[1].nodes[1].kind = "View"

\* C28: an advance() made in the state EOF returns Done: the pending module is
\* there when the end of the tokens is finalized.
C28_EofReturnsDone ==
    [][ mp.state = "EOF" => mp'.outcome = "Done" ]_vars

----------------------------------------------------------------------------
(* The step machines by their operations: ModuleParser::advance,            *)
(* set_pending_err and parse_view_elements, and the ViewParser it starts,   *)
(* over one shared tokenizer.  parse_token is todo!() in both parsers, so   *)
(* no source text makes the program call set_pending_err or                 *)
(* parse_view_elements; here they are called whenever their receiver is     *)
(* between two operations.                                                  *)

StepInputs == ParseInputs \ {<<>>}

InitStep ==
    /\ input \in StepInputs
    /\ tokenizer = TokenizerNew(input)
    /\ out = <<>>
    /\ parser = NoParser
    /\ issued = <<>>
    /\ requests = 0
    /\ mp = [ state |-> "Ready", token |-> <<>>, error |-> "-", pending |-> <<>>,
              outcome |-> "-", errored |-> FALSE ]
    /\ vp = NoViewParser
    /\ logger = NoLogger

\* The parser whose code is running: parse_view_elements calls
\* ViewParser::parse_all on the spot, and the module parser goes on only when
\* that call has returned.
CursorOwner == IF vp.outcome = "running" THEN "view" ELSE "module"

\* The module parser's code runs whatever the view parser is doing.
AlwaysMayRun == TRUE

\* The module parser's code can run: no ViewParser::parse_all is under way and
\* nothing has panicked.
ModuleMayRun == vp.outcome \notin {"running", "panicked"}

\* ModuleParser::consume_token / ViewParser::consume_token by parser `by`:
\* tokenizer.borrow_mut().next(), the borrow ending with the statement.
Pull(by) ==
    /\ tokenizer' = next(tokenizer).t
    /\ requests' = requests + 1
    /\ out' = Append(out, [by |-> by, owner |-> CursorOwner,
                           res |-> next(tokenizer).res])

\* The state the machine `m` is left in by advance() in Ready.
ready_to(m, r) ==
    IF r.res.panic THEN [m EXCEPT !.outcome = "panicked"]
    ELSE IF r.res.res # <<>>
         THEN [m EXCEPT !.state = "PendingToken", !.token = r.res.res,
                        !.outcome = "Continue"]
         ELSE [m EXCEPT !.state = "EOF", !.outcome = "Continue"]

\* One call of ModuleParser::advance, whatever the calls before it returned.
\* state.take() leaves Ready in every arm.
SAdvance ==
    /\ ModuleMayRun
    /\ mp.outcome # "panicked"
    /\ CASE mp.state = "Ready" ->
              /\ Pull("module")
              /\ mp' = ready_to(mp, next(tokenizer))
         [] mp.state = "PendingToken" ->
              /\ mp' = [mp EXCEPT !.state = "Ready", !.token = <<>>,
                                  !.outcome = "panicked"]
              /\ UNCHANGED <<tokenizer, requests, out>>
         [] mp.state = "PendingParseError" ->
              /\ mp' = [mp EXCEPT !.state = "Ready", !.outcome = "ParseError",
                                  !.errored = TRUE]
              /\ UNCHANGED <<tokenizer, requests, out>>
         [] mp.state = "EOF" ->
              /\ mp' = [mp EXCEPT !.state = "Ready", !.pending = <<>>,
                                  !.outcome = IF mp.pending # <<>> THEN "Done"
                                              ELSE "panicked"]
              /\ UNCHANGED <<tokenizer, requests, out>>
    /\ UNCHANGED <<input, parser, issued, vp, logger>>

\* ModuleParser::set_pending_err: state.replace(PendingParseError(err)), and
\* the assertion that the state replaced was Ready.
SSetPendingErr ==
    /\ ModuleMayRun
    /\ mp.outcome # "panicked"
    /\ mp' = [mp EXCEPT !.state = "PendingParseError", !.error = "SyntaxError",
                        !.outcome = IF mp.state = "Ready" THEN @ ELSE "panicked"]
    /\ UNCHANGED <<input, tokenizer, out, parser, issued, requests, vp, logger>>

\* ModuleParser::parse_view_elements: ViewParser::new on a clone of the Rc,
\* then its parse_all().
SParseViewElements ==
    /\ ModuleMayRun
    /\ mp.outcome # "panicked"
    /\ vp' = [ state |-> "Ready", token |-> <<>>, error |-> "-", pending |-> <<>>,
               outcome |-> "running" ]
    /\ UNCHANGED <<input, tokenizer, out, parser, issued, requests, mp, logger>>

\* One turn of the loop of ViewParser::parse_all: advance() and the match on
\* what it returns.  parse_token is todo!(); pending is set nowhere, so the
\* expect() after Done panics.
VAdvance ==
    /\ vp.outcome = "running"
    /\ CASE vp.state = "Ready" ->
              /\ Pull("view")
              /\ vp' = [ready_to(vp, next(tokenizer)) EXCEPT
                           !.outcome = IF @ = "panicked" THEN @ ELSE "running"]
         [] vp.state = "PendingToken" ->
              /\ vp' = [vp EXCEPT !.state = "Ready", !.token = <<>>,
                                  !.outcome = "panicked"]
              /\ UNCHANGED <<tokenizer, requests, out>>
         [] vp.state = "PendingParseError" ->
              /\ vp' = [vp EXCEPT !.state = "Ready", !.outcome = "ParseError"]
              /\ UNCHANGED <<tokenizer, requests, out>>
         [] vp.state = "EOF" ->
              /\ vp' = [vp EXCEPT !.state = "Ready", !.pending = <<>>,
                                  !.outcome = IF vp.pending # <<>> THEN "Ok"
                                              ELSE "panicked"]
              /\ UNCHANGED <<tokenizer, requests, out>>
    /\ UNCHANGED <<input, parser, issued, mp, logger>>

NextStep ==
    \/ SAdvance
    \/ SSetPendingErr
    \/ SParseViewElements
    \/ VAdvance

SpecStep == InitStep /\ [][NextStep]_vars

\* C27: the error state is terminal: an operation on a machine in
\* PendingParseError leaves it there, and once advance() has returned
\* ParseError every later operation leaves that result and the tokenizer alone.
C27_ErrorStateIsTerminal ==
    [][ /\ (mp.state = "PendingParseError" /\ mp' # mp)
           => mp'.state = "PendingParseError"
        /\ (mp.errored /\ mp' # mp)
           => (mp'.outcome = "ParseError" /\ tokenizer' = tokenizer) ]_vars

\* The tokens the view parser has pulled.
ViewPulls == SelectSeq(out, LAMBDA e : e.by = "view")

\* C29: a view parser that has stopped has returned Ok or ParseError, and when
\* it returned Ok the last token it pulled is the `/>` or `>` that ends its
\* element.
C29_ViewStopsAtElementEnd ==
    vp.outcome \notin {"-", "running"}
    => \/ vp.outcome = "ParseError"
       \/ /\ vp.outcome = "Ok"
          /\ ViewPulls # <<>>
          /\ LET last == ViewPulls[Len(ViewPulls)].res
             IN  /\ last.res # <<>> /\ last.res[1].ok
                 /\ last.res[1].tok.con.kind \in
                       {"TagAngleSelfClosingRight", "TagAngleBracketRight"}

----------------------------------------------------------------------------
(* Identifiers that start with `$` or `_` *)

\* w starts with `$` or `_` and goes on with letters, digits, `_`, `$`, `-`.
IsSigilWord(w) ==
    /\ w # <<>>
    /\ w[1] \in {"_", "$"}
    /\ \A i \in 2..Len(w) :
          \/ IsAsciiLetter(w[i]) \/ IsDigit(w[i])
          \/ w[i] \in {"_", "$", "-"}

\* The words before the k-th are identifier words that start with no reserved
\* word, or digit runs: each of them is one token.
PlainBefore(src, k) ==
    \A j \in 1..(k - 1) :
        LET w == Words(src)[j].text
        IN  IsDigitRun(w) \/ (IsIdentifierWord(w) /\ ~StartsWithReserved(w))

\* The length of the longest prefix of src that is a `$` or `_` word.
SigilPrefixLen(src) ==
    CHOOSE n \in 0..Len(src) :
        /\ n > 0 => IsSigilWord(SubSeq(src, 1, n))
        /\ n < Len(src) => ~IsSigilWord(SubSeq(src, 1, n + 1))

----------------------------------------------------------------------------
(* Reserved words *)

\* The token kinds of the reserved table.
ReservedKinds == {e[2] : e \in ReservedTable}

\* The spelling of a reserved word's token kind.
SpellingOf(kind) == (CHOOSE e \in ReservedTable : e[2] = kind)[1]

\* C32: a reserved word's token is as long as the reserved word is spelled, so
\* that starts_at + len is the offset of the character after the keyword.
C32_ReservedLenIsSpelling ==
    \A i \in 1..Len(out) :
        (IsOkAt(i) /\ TokAt(i).con.kind \in ReservedKinds)
        => TokAt(i).loc.len = Len(SpellingOf(TokAt(i).con.kind))

----------------------------------------------------------------------------
(* Draining the tokenizer *)

\* The characters the tokenizer has not consumed yet, `current` included.
Remaining(t) == IF t.current = None THEN 0 ELSE 1 + Len(t.itr)

\* C33: every next() that returns a token or an error leaves fewer characters
\* to read than it found, and so a caller that goes on calling it has None by
\* its call number Len(input) + 1 at the latest.
C33_DrainTerminates ==
    /\ [][ ( /\ out' # out
             /\ ~out'[Len(out')].panic
             /\ out'[Len(out')].res # <<>> )
           => Remaining(tokenizer') < Remaining(tokenizer) ]_vars
    /\ [](Len(out) = Len(input) + 1 => out[Len(out)] = Returned(<<>>))

----------------------------------------------------------------------------
(* The pushback buffer *)

\* C34: between next() calls the buffer `pending` is empty, and no call has
\* panicked: neither on the assertion of set_pending nor on `no pending token`.
C34_PendingEmptyBetweenCalls ==
    /\ tokenizer.pending = <<>>
    /\ \A i \in 1..Len(out) : ~out[i].panic

\* A call has returned an identifier that went through the buffer twice (put
\* there by lex_reserved, taken by lex_identifier, put back by set_pending),
\* the call after it an error, and a call on another source has returned None.
C34_Witness ==
    \/ /\ Len(out) >= 2
       /\ IsAsciiLetter(input[1])
       /\ IsOkAt(1) /\ TokAt(1).con.kind = "Identifier"
       /\ ~out[2].panic /\ out[2].res # <<>> /\ ~out[2].res[1].ok
    \/ /\ Len(out) = 2
       /\ input = <<"$","f","o","r">>
       /\ out[2] = Returned(<<>>)

----------------------------------------------------------------------------
(* The empty source *)

\* C35: on the empty source nothing panics, and parse_all() returns a file
\* whose module has no nodes.
C35_EmptySourceParses ==
    input = <<>>
    => /\ parser.pc # "panicked"
       /\ IF parser.pc = "done"
          THEN /\ Result.ok
               /\ Len(Result.file.modules) = 1
               /\ Result.file.modules[1].nodes = <<>>
          ELSE TRUE

----------------------------------------------------------------------------
(* The cursor near MAX_IDX_VALUE *)
(* A source of MAX_IDX_VALUE - d blanks followed by `input`: the loop of    *)
(* next() has skipped the blanks, one consume_char each, and stands at its  *)
(* head on the first character of `input`.  `requests` is the number of     *)
(* consume_char calls made so far less MAX_IDX_VALUE, a number TLC can hold. *)

\* How far before MAX_IDX_VALUE the text starts, at most.
MaxLead == 3

WrapAlphabet == {"a", "s", "1", " ", "\"", "<"}

WrapInputs == SeqsUpTo(WrapAlphabet, MaxLen) \ {<<>>}

InitWrap ==
    /\ input \in WrapInputs
    /\ \E d \in 1..MaxLead :
          /\ tokenizer = [TokenizerNew(input) EXCEPT !.current_idx = MAX_IDX_VALUE - d]
          /\ requests = 0 - d
    /\ out = <<>>
    /\ parser = NoParser
    /\ issued = <<>>
    /\ mp = NoModuleParser
    /\ vp = NoViewParser
    /\ logger = NoLogger

\* One call of Tokenizer::next() (the first one from the head of its loop),
\* with the consume_char calls it makes counted.
WrapCall ==
    /\ Len(out) <= Len(input)
    /\ IF out = <<>> THEN TRUE ELSE ~out[Len(out)].panic
    /\ LET r == next(tokenizer)
       IN  /\ tokenizer' = r.t
           /\ out' = Append(out, r.res)
           /\ requests' = requests + (Remaining(tokenizer) - Remaining(r.t))
    /\ UNCHANGED <<input, parser, issued, mp, vp, logger>>

NextWrap == WrapCall

SpecWrap == InitWrap /\ [][NextWrap]_vars

\* current_idx stays below MAX_IDX_VALUE.
IdxBelowMax == tokenizer.current_idx >= 0 /\ tokenizer.current_idx < MAX_IDX_VALUE

\* full_idx_count * MAX_IDX_VALUE + current_idx is the number of consume_char
\* calls, here with MAX_IDX_VALUE taken from both sides.
IdxCountsConsumed ==
    /\ tokenizer.full_idx_count \in {0, 1}
    /\ tokenizer.current_idx - (IF tokenizer.full_idx_count = 0
                                THEN MAX_IDX_VALUE ELSE 0) = requests

\* No token's len is the result of a subtraction below zero.
LenNeverUnderflows ==
    \A i \in 1..Len(out) : IsOkAt(i) => TokAt(i).loc.len >= 0

\* C36: current_idx stays below MAX_IDX_VALUE, full_idx_count and current_idx
\* count the consume_char calls, and current_idx - loc.starts_at is never
\* below zero, also for a token that lies across a wrap of current_idx.
C36_IndexArithmeticInRange ==
    /\ IdxBelowMax
    /\ IdxCountsConsumed
    /\ LenNeverUnderflows

====
